---- MODULE Spec2Model ----
(***************************************************************************)
(* Model of the process store / waitroom coordination of fastify-camunda:  *)
(* the dbo.process_store table, the repository functions that read and     *)
(* write it, processStore.save, createWait's polling loop, clearAll, the   *)
(* three routes POST /start, POST /complete and GET /status/:correlationId *)
(* and the prepare-response task handler.                                  *)
(*                                                                         *)
(* Every step of a handler that awaits a database query is one action, so  *)
(* that handlers of concurrent requests interleave at their awaits.        *)
(* Times are in milliseconds. Time advances only in Tick, to the next      *)
(* timer that is due; database calls take no time, so no time passes while *)
(* a handler is between two of them.                                       *)
(*                                                                         *)
(* Spec runs the three routes with two POST /start and two POST /complete  *)
(* slots. WaitSpec runs one POST /start among the POST /complete requests  *)
(* for several values of SYNC_TIMEOUT_MS. UpsertSpec runs the batch of     *)
(* upsertProcessStore statement by statement on concurrent connections,    *)
(* with the key-range lock that SQL Server takes for an UPDATE WITH        *)
(* (UPDLOCK, HOLDLOCK) and holds until COMMIT; in the other specifications *)
(* that batch is one step. SignalSpec runs the POST /complete requests     *)
(* alone; RoundTripSpec one POST /start, one POST /complete for each of    *)
(* the payloads and the GET /status requests; ShutdownSpec the onClose     *)
(* hook of a closing instance among one POST /start and one POST /complete *)
(* on two keys, and LiveSpec adds to it that handlers run on and timers    *)
(* fire; ServiceSpec runs prepareResponseService, the task handler that    *)
(* completes a process, with one POST /start. ClockSpec runs the write     *)
(* statements of the repository against the clock of the database server   *)
(* and keeps the started_at and updated_at columns; BackoffSpec one POST   *)
(* /start and the GET /status requests for each timeout; TerminationSpec   *)
(* one POST /start and one POST /complete for each timeout, with handlers  *)
(* running on and timers firing; FrameSpec the POST /complete requests on  *)
(* two keys.                                                               *)
(***************************************************************************)
EXTENDS Integers, Sequences, FiniteSets, TLC

(***************************************************************************)
(* Bounds of the model.                                                    *)
(***************************************************************************)
MaxFaults == 1          \* database calls that fail
MaxRequests == 3        \* POST /start and POST /complete requests of a run
SYNC_TIMEOUT_MS == 200  \* app.config.SYNC_TIMEOUT_MS of the run
LongTimeoutMs == 2600   \* the longest app.config.SYNC_TIMEOUT_MS, for the runs of one wait

(***************************************************************************)
(* Program constants.                                                      *)
(***************************************************************************)
InitialDelayMs == 50
MaxDelayMs == 1000
CleanupDelayMs == 5000

Keys == {"K1"}          \* correlation ids
BeginIds == {1, 2}      \* POST /start requests, in the order they arrive
CompleteIds == {1, 2}   \* POST /complete requests, in the order they arrive
TxIds == {1, 2, 3}      \* connections that run the batch of upsertProcessStore

(***************************************************************************)
(* JavaScript values: a type tag and a printed value.                      *)
(* An object is identified by its canonical JSON text.                     *)
(***************************************************************************)
Undefined == [type |-> "undefined", val |-> ""]
Null == [type |-> "null", val |-> ""]
Str(s) == [type |-> "string", val |-> s]
Obj(s) == [type |-> "object", val |-> s]
\* a number and a boolean, by their printed text
Num(s) == [type |-> "number", val |-> s]
Bool(s) == [type |-> "boolean", val |-> s]

Nullish(v) == v.type \in {"undefined", "null"}
\* a ?? b
Coalesce(a, b) == IF Nullish(a) THEN b ELSE a
\* the truthiness test of (v ? x : y)
Truthy(v) ==
  CASE v.type \in {"undefined", "null"} -> FALSE
    [] v.type = "string" -> v.val # ""
    [] v.type = "number" -> v.val # "0"
    [] v.type = "boolean" -> v.val = "true"
    [] OTHER -> TRUE

Messages ==
  {"boom", "Unknown process error", "Onboarding process failed",
   "Unknown error", "Process timeout",
   "Failed to start Camunda process: connect ECONNREFUSED",
   "Aborted: shutdown", "Aborted: server shutdown"}

\* the object { message: m }
ErrorObject(m) == Obj("{\"message\":\"" \o m \o "\"}")

QueuedData == Obj("{\"step\":\"queued\"}")
PayloadX == Obj("{\"x\":1}")

\* the data of the POST /complete bodies: objects, arrays, strings, numbers,
\* booleans and null, the falsy ones among them
Payloads ==
  {PayloadX, Obj("[]"), Obj("[1,2]"), Str(""), Str("a"), Num("0"), Num("1"),
   Bool("false"), Bool("true"), Null}

\* the responseData of prepareResponseService, by its field success
ResponseData(success) ==
  IF success THEN Obj("{\"success\":true}") ELSE Obj("{\"success\":false}")

\* the values that JSON.stringify is applied to
JsonValues ==
  {Null, QueuedData, PayloadX} \cup {ErrorObject(m) : m \in Messages} \cup Payloads
    \cup {ResponseData(b) : b \in BOOLEAN}

\* JSON.stringify(v)
JSONstringify(v) ==
  CASE v.type = "null" -> "null"
    [] v.type = "string" -> "\"" \o v.val \o "\""
    [] OTHER -> v.val

\* JSON.parse(s) throws a SyntaxError unless s is a JSON text
JSONparseThrows(s) == \A v \in JsonValues : JSONstringify(v) # s
JSONparse(s) == CHOOSE v \in JsonValues : JSONstringify(v) = s

\* v.message, for a v that is not null or undefined
MessageOf(v) ==
  IF \E m \in Messages : v = ErrorObject(m)
    THEN Str(CHOOSE m \in Messages : v = ErrorObject(m))
    ELSE Undefined

\* String.prototype.toUpperCase / toLowerCase on the status words
toUpperCase(s) ==
  CASE s = "pending" -> "PENDING"
    [] s = "ok" -> "OK"
    [] s = "error" -> "ERROR"
    [] s = "done" -> "DONE"
    [] OTHER -> s
toLowerCase(s) ==
  CASE s = "PENDING" -> "pending"
    [] s = "OK" -> "ok"
    [] s = "ERROR" -> "error"
    [] s = "DONE" -> "done"
    [] OTHER -> s

(***************************************************************************)
(* SQL column values: NULL or a text.                                      *)
(***************************************************************************)
NULL == <<>>
Text(s) == <<s>>
\* the truthiness test of a column value read into JavaScript
ColTruthy(c) == c # NULL /\ c[1] # ""

(***************************************************************************)
(* ProcessData, and the null that stands for "no row".                     *)
(***************************************************************************)
ProcessData(st, d, e) == [isNull |-> FALSE, status |-> st, data |-> d, error |-> e]
NullPD == [isNull |-> TRUE, status |-> Undefined, data |-> Undefined, error |-> Undefined]

\* the row-to-ProcessData mapping shared by pollProcessStore and
\* findProcessStore; it throws when error_json does not parse or parses
\* to null
RowThrows(row) ==
  \/ /\ ColTruthy(row.payload_json)
     /\ JSONparseThrows(row.payload_json[1])
  \/ /\ ColTruthy(row.error_json)
     /\ \/ JSONparseThrows(row.error_json[1])
        \/ Nullish(JSONparse(row.error_json[1]))
RowToProcessData(row) ==
  ProcessData(
    Str(toLowerCase(row.status)),
    IF ColTruthy(row.payload_json) THEN JSONparse(row.payload_json[1]) ELSE Undefined,
    IF ColTruthy(row.error_json) THEN MessageOf(JSONparse(row.error_json[1])) ELSE Undefined)

(***************************************************************************)
(* dbo.process_store: a function from the correlation ids that have a row  *)
(* to rows [status, payload_json, error_json].                             *)
(***************************************************************************)
Row(st, p, e) == [status |-> st, payload_json |-> p, error_json |-> e]

\* the rows a SELECT ... WHERE correlation_id = @p1 returns
SelectRow(tbl, correlationId) ==
  IF correlationId \in DOMAIN tbl THEN <<tbl[correlationId]>> ELSE <<>>

\* UPDATE ... WHERE correlation_id = @p1 with the new column values
\* an UPDATE that inserts the row when no row matches its WHERE
UpdateRowOrInsert(tbl, correlationId, row) ==
  IF correlationId \in DOMAIN tbl
    THEN [tbl EXCEPT ![correlationId] = row]
    ELSE tbl @@ (correlationId :> row)

UpdateRow(tbl, correlationId, row) ==
  IF correlationId \in DOMAIN tbl
    THEN [tbl EXCEPT ![correlationId] = row]
    ELSE tbl

\* UPDATE, and INSERT when @@ROWCOUNT = 0, in one transaction
upsertProcessStore(tbl, correlationId, data) ==
  LET row == Row(toUpperCase(data.status.val),
                 IF Truthy(data.data) THEN Text(JSONstringify(data.data)) ELSE NULL,
                 IF Nullish(data.error) THEN NULL ELSE Text(data.error.val))
  IN IF correlationId \in DOMAIN tbl
       THEN [tbl EXCEPT ![correlationId] = row]
       ELSE tbl @@ (correlationId :> row)

\* completeProcessStore serialising as upsertProcessStore does: NULL for a
\* falsy payload
completeProcessStoreTruthy(tbl, correlationId, payload) ==
  UpdateRow(tbl, correlationId,
            Row("DONE", IF Truthy(payload) THEN Text(JSONstringify(payload)) ELSE NULL, NULL))

completeProcessStore(tbl, correlationId, payload) ==
  UpdateRow(tbl, correlationId, Row("DONE", Text(JSONstringify(payload)), NULL))

\* error is an Error object, so errorJson is { message: error.message || "Unknown error" }
failProcessStore(tbl, correlationId, error) ==
  LET errorJson == ErrorObject(IF error.message # "" THEN error.message ELSE "Unknown error")
  IN UpdateRow(tbl, correlationId, Row("ERROR", NULL, Text(JSONstringify(errorJson))))

deleteProcessStore(tbl, correlationId) ==
  [k \in DOMAIN tbl \ {correlationId} |-> tbl[k]]

\* the ProcessData | null that pollProcessStore and findProcessStore return
\* for the rows of their SELECT, when the mapping does not throw
RowsToProcessData(rows) ==
  IF Len(rows) = 0 THEN NullPD ELSE RowToProcessData(rows[1])
RowsThrow(rows) == Len(rows) > 0 /\ RowThrows(rows[1])

\* the merge of processStore.save
SaveMerge(data, existing) ==
  ProcessData(Coalesce(data.status, Coalesce(existing.status, Str("pending"))),
              Coalesce(data.data, existing.data),
              Coalesce(data.error, existing.error))

\* the UPDATE of clearAll without its WHERE status = 'PENDING'
clearAllEveryRow(tbl, reason, failed) ==
  LET text == IF reason.type = "undefined" THEN "shutdown" ELSE reason.val
      errorJson == JSONstringify(ErrorObject("Aborted: " \o text))
  IN [tbl |-> IF failed
                THEN tbl
                ELSE [k \in DOMAIN tbl |->
                        [tbl[k] EXCEPT !.status = "ERROR",
                                       !.error_json = Text(errorJson)]],
      threw |-> FALSE]

\* clearAll(db, reason = "shutdown"): one UPDATE of the rows WHERE status =
\* 'PENDING', which sets status and error_json and no other column; a throw
\* of the query (failed) is caught and logged, so the call never throws
clearAll(tbl, reason, failed) ==
  LET text == IF reason.type = "undefined" THEN "shutdown" ELSE reason.val
      errorJson == JSONstringify(ErrorObject("Aborted: " \o text))
  IN [tbl |-> IF failed
                THEN tbl
                ELSE [k \in DOMAIN tbl |->
                        IF tbl[k].status = "PENDING"
                          THEN [tbl[k] EXCEPT !.status = "ERROR",
                                              !.error_json = Text(errorJson)]
                          ELSE tbl[k]],
      threw |-> FALSE]

(***************************************************************************)
(* createWait                                                              *)
(***************************************************************************)
JsError(code, message) == [code |-> code, message |-> message]

\* normalizedStatus with the test for "done" left out
normalizedStatusNoDoneTest(processData) ==
  IF processData.status.val = "pending" THEN "pending" ELSE "ok"

normalizedStatus(processData) ==
  IF processData.status.val = "pending" THEN "pending"
  ELSE IF toLowerCase(processData.status.val) = "done" THEN "ok"
  ELSE "error"

\* the loop condition testing against twice the timeout
WaitContinuesTwice(elapsed, timeoutMs) == elapsed < timeoutMs * 2

\* the loop condition with the first delay counted as already slept
WaitContinuesEarly(elapsed, timeoutMs) == elapsed + InitialDelayMs < timeoutMs

\* the loop condition Date.now() - start < timeoutMs
WaitContinues(elapsed, timeoutMs) == elapsed < timeoutMs

\* the body of the try returning null from createWait when there is no row
tryBodyNullReturns(rows, failed) ==
  LET processData == RowsToProcessData(rows)
  IN IF failed \/ RowsThrow(rows)
       THEN [kind |-> "throw", value |-> Undefined, err |-> JsError("", "query failed")]
     ELSE IF processData.isNull \/ normalizedStatus(processData) = "ok"
       THEN [kind |-> "return", value |-> Coalesce(processData.data, Null),
             err |-> JsError("", "")]
     ELSE IF normalizedStatus(processData) = "error"
       THEN [kind |-> "throw", value |-> Undefined,
             err |-> JsError("", Coalesce(processData.error,
                                          Str("Onboarding process failed")).val)]
     ELSE [kind |-> "fallthrough", value |-> Undefined, err |-> JsError("", "")]

\* the body of the try of the loop, for the rows the SELECT of
\* pollProcessStore returned (failed: one of its queries threw): it returns
\* from createWait, throws, or falls through to the sleep
tryBody(rows, failed) ==
  LET processData == RowsToProcessData(rows)
  IN IF failed \/ RowsThrow(rows)
       THEN [kind |-> "throw", value |-> Undefined, err |-> JsError("", "query failed")]
     ELSE IF processData.isNull
       THEN [kind |-> "fallthrough", value |-> Undefined, err |-> JsError("", "")]
     ELSE IF normalizedStatus(processData) = "ok"
       THEN [kind |-> "return", value |-> Coalesce(processData.data, Null),
             err |-> JsError("", "")]
     ELSE IF normalizedStatus(processData) = "error"
       THEN [kind |-> "throw", value |-> Undefined,
             err |-> JsError("", Coalesce(processData.error,
                                          Str("Onboarding process failed")).val)]
     ELSE [kind |-> "fallthrough", value |-> Undefined, err |-> JsError("", "")]

\* a catch that catches nothing
LoopCatchesNothing(err) == FALSE

\* catch (lockTimeoutError) { } of the loop: it catches whatever the try
\* throws and rethrows nothing
LoopCatches(err) == TRUE

Min(a, b) == IF a < b THEN a ELSE b
\* the doubling without its cap
NextDelayNoCap(delay) == delay * 2
\* the schedule of the comments of createWait: 50, 100, 250, 500, 1000
NextDelayOfComment(delay) == IF delay = 100 THEN 250 ELSE Min(delay * 2, MaxDelayMs)
NextDelay(delay) == Min(delay * 2, MaxDelayMs)

(***************************************************************************)
(* HTTP replies                                                            *)
(***************************************************************************)
Reply(code, status, correlationId, result, error, statusUrl, received) ==
  [code |-> code, status |-> status, correlationId |-> correlationId,
   result |-> result, error |-> error, statusUrl |-> statusUrl,
   received |-> received]
NoReply == Reply(0, "", "", Undefined, Undefined, "", FALSE)
\* the reply of the framework when a handler throws
Unhandled500 == Reply(500, "", "", Undefined, Str("Internal Server Error"), "", FALSE)

\* a catch that takes every error for the timeout of the wait
IsTimeoutAnyError(e) == TRUE

\* the catch of the start handler: e?.code === "TIMEOUT"
IsTimeout(e) == e.code = "TIMEOUT"

\* the status code of GET /status/:correlationId
statusCode(processData) ==
  IF processData.status.val = "ok" THEN 200
  ELSE IF processData.status.val = "error" THEN 500
  ELSE 202

(***************************************************************************)
(* State                                                                   *)
(***************************************************************************)
VARIABLES
  store,      \* dbo.process_store
  begin,      \* the POST /start handlers
  comp,       \* the POST /complete handlers and their cleanup timers
  statusReq,  \* the GET /status/:correlationId answered by the latest step, if it was one
  faults,     \* database calls that have failed so far
  timeoutMs,  \* app.config.SYNC_TIMEOUT_MS
  sql,        \* the upsertProcessStore batches in progress, statement by statement
  svc,        \* the prepare-response task handler and its cleanup timer
  times       \* the clock of the database server and the started_at and
              \* updated_at columns, for the specification that runs the
              \* statements of the repository against the clock (the columns
              \* decide nothing in the handlers, whose steps leave them out)

vars == <<store, begin, comp, statusReq, faults, timeoutMs, sql, svc, times>>

NoTimer == -1

CompleteBodies ==
  { [status |-> "ok", data |-> PayloadX, error |-> Undefined],
    [status |-> "ok", data |-> Undefined, error |-> Undefined],
    [status |-> "error", data |-> Undefined, error |-> Str("boom")] }

\* besides the locals of the handler, a POST /start records of its wait:
\* polls, the polls made; slept, the delay of the latest sleep; missed, a
\* poll found no row; pollFailed, a poll threw; termAt, the elapsed time at
\* which a Completion Signal made the row terminal before the deadline
BeginIdle ==
  [pc |-> "idle", key |-> "", existing |-> NullPD, delay |-> 0, sleepLeft |-> 0,
   elapsed |-> 0, wait |-> "none", polled |-> <<>>, sawTerminal |-> FALSE,
   polls |-> 0, slept |-> 0, missed |-> FALSE, pollFailed |-> FALSE,
   termAt |-> NoTimer,
   err |-> JsError("", ""), reply |-> NoReply]

CompleteIdle ==
  [pc |-> "idle", key |-> "", body |-> [status |-> "", data |-> Undefined, error |-> Undefined],
   existing |-> NullPD, after202 |-> FALSE, inflight |-> {}, woke |-> FALSE,
   matched |-> FALSE, timer |-> NoTimer, reply |-> NoReply]

StatusIdle == [key |-> "", failed |-> FALSE, rows |-> <<>>, reply |-> NoReply]

\* a connection that has not started the batch; rowcount is @@ROWCOUNT
TxIdle == [pc |-> "idle", key |-> "", data |-> NullPD, rowcount |-> 0, err |-> ""]
\* no transaction holds the key-range lock
NoHolder == 0
SqlIdle == [lock |-> NoHolder, tx |-> [p \in TxIds |-> TxIdle]]

\* SYSUTCDATETIME() is 0 and no row has its timestamps
TimesIdle == [now |-> 0, at |-> <<>>]

\* prepareResponseService not yet called; of its input: success is
\* validated && backgroundCheckPassed && onboarded. Recorded of the call:
\* woke, what completeWait or failWait returned; scheduled, setTimeout was
\* called; result, the value returned
SvcIdle ==
  [pc |-> "idle", key |-> "", success |-> FALSE, reason |-> Undefined,
   existing |-> NullPD, woke |-> FALSE, scheduled |-> FALSE, timer |-> NoTimer,
   threw |-> FALSE, result |-> ""]

Init ==
  /\ store = <<>>
  /\ begin = [b \in BeginIds |-> BeginIdle]
  /\ comp = [c \in CompleteIds |-> CompleteIdle]
  /\ statusReq = StatusIdle
  /\ faults = 0
  /\ timeoutMs = SYNC_TIMEOUT_MS
  /\ sql = SqlIdle
  /\ svc = SvcIdle
  /\ times = TimesIdle

\* the requests that have arrived
Arrived ==
  Cardinality({b \in BeginIds : begin[b].pc # "idle"})
    + Cardinality({c \in CompleteIds : comp[c].pc # "idle"})

\* a database call either succeeds or fails; failed is the choice made
DbCall(failed) ==
  /\ failed => faults < MaxFaults
  /\ faults' = IF failed THEN faults + 1 ELSE faults

(***************************************************************************)
(* POST /start                                                             *)
(***************************************************************************)
\* the request for correlationId k arrives and the handler runs up to
\* save: const existing = await findProcessStore(db, correlationId)
\* a throw leaves the handler (the save is outside its try)
StartSaveFind(b, k) ==
  /\ begin[b].pc = "idle"
  /\ \A x \in BeginIds : x < b => begin[x].pc # "idle"
  /\ Arrived < MaxRequests
  /\ \E failed \in BOOLEAN :
       /\ DbCall(failed)
       /\ LET rows == SelectRow(store, k)
          IN IF failed \/ RowsThrow(rows)
               THEN begin' = [begin EXCEPT ![b].pc = "done", ![b].key = k,
                                           ![b].reply = Unhandled500]
               ELSE begin' = [begin EXCEPT ![b].pc = "save_upsert", ![b].key = k,
                                           ![b].existing = RowsToProcessData(rows)]
  /\ statusReq' = StatusIdle
  /\ UNCHANGED <<store, comp, timeoutMs, sql, svc, times>>

\* save: await upsertProcessStore(db, correlationId, updated)
StartSaveUpsert(b) ==
  /\ begin[b].pc = "save_upsert"
  /\ \E failed \in BOOLEAN :
       /\ DbCall(failed)
       /\ IF failed
            THEN /\ begin' = [begin EXCEPT ![b].pc = "done", ![b].reply = Unhandled500]
                 /\ UNCHANGED store
            ELSE /\ store' = upsertProcessStore(store, begin[b].key,
                       SaveMerge(ProcessData(Str("pending"), QueuedData, Undefined),
                                 begin[b].existing))
                 /\ begin' = [begin EXCEPT ![b].pc = "trigger", ![b].existing = NullPD]
  /\ statusReq' = StatusIdle
  /\ UNCHANGED <<comp, timeoutMs, sql, svc, times>>

\* startProcessInstance called without awaiting the save before it: the
\* engine is triggered and the wait starts while the upsert is still to run
StartTriggerUnsaved(b) ==
  /\ begin[b].pc \in {"save_upsert", "trigger"}
  /\ begin' = [begin EXCEPT ![b].pc = "loop", ![b].wait = "running",
                            ![b].delay = InitialDelayMs, ![b].elapsed = 0]
  /\ statusReq' = StatusIdle
  /\ UNCHANGED <<store, comp, faults, timeoutMs, sql, svc, times>>

\* await startProcessInstance(...): it returns and createWait starts, or it
\* throws an Error without a code into the catch of the handler
StartTrigger(b) ==
  /\ begin[b].pc = "trigger"
  /\ \E started \in BOOLEAN :
       LET e == JsError("", "Failed to start Camunda process: connect ECONNREFUSED")
       IN IF started
            THEN begin' = [begin EXCEPT ![b].pc = "loop", ![b].wait = "running",
                                        ![b].delay = InitialDelayMs, ![b].elapsed = 0]
          ELSE IF IsTimeout(e)
            THEN begin' = [begin EXCEPT ![b].pc = "done", ![b].err = e,
                    ![b].reply = Reply(202, "pending", begin[b].key, Undefined, Undefined,
                                       "/api/process/status/" \o begin[b].key, FALSE)]
          ELSE begin' = [begin EXCEPT ![b].pc = "err_find", ![b].err = e]
  /\ statusReq' = StatusIdle
  /\ UNCHANGED <<store, comp, faults, timeoutMs, sql, svc, times>>

\* one iteration of the loop of createWait up to its sleep: pollProcessStore,
\* then return on DONE; everything thrown inside the try is caught by the
\* catch of the loop
WaitPoll(b) ==
  /\ begin[b].pc = "loop"
  /\ WaitContinues(begin[b].elapsed, timeoutMs)
  /\ \E failed \in BOOLEAN :
       /\ DbCall(failed)
       /\ LET rows == IF failed THEN <<>> ELSE SelectRow(store, begin[b].key)
              out == tryBody(rows, failed)
              seen == [begin EXCEPT ![b].sawTerminal = @ \/
                          (~failed /\ ~RowsThrow(rows) /\ Len(rows) > 0
                             /\ rows[1].status \in {"DONE", "ERROR"}),
                        ![b].polls = @ + 1,
                        ![b].missed = @ \/ (~failed /\ Len(rows) = 0),
                        ![b].pollFailed = @ \/ failed]
          IN IF out.kind = "return"
               THEN begin' = [seen EXCEPT ![b].pc = "done", ![b].wait = "resolved",
                        ![b].polled = rows,
                        ![b].reply = Reply(200, "ok", begin[b].key, out.value,
                                           Undefined, "", FALSE)]
             ELSE IF out.kind = "throw" /\ ~LoopCatches(out.err)
               THEN begin' = [seen EXCEPT ![b].pc = "err_find", ![b].wait = "rejected",
                                          ![b].polled = rows, ![b].err = out.err]
             ELSE begin' = [seen EXCEPT ![b].pc = "sleep",
                                        ![b].sleepLeft = begin[b].delay,
                                        ![b].slept = begin[b].delay]
  /\ statusReq' = StatusIdle
  /\ UNCHANGED <<store, comp, timeoutMs, sql, svc, times>>

\* the timer of the sleep fires: delay = Math.min(delay * 2, 1000)
WaitWake(b) ==
  /\ begin[b].pc = "sleep"
  /\ begin[b].sleepLeft = 0
  /\ begin' = [begin EXCEPT ![b].pc = "loop", ![b].delay = NextDelay(@)]
  /\ statusReq' = StatusIdle
  /\ UNCHANGED <<store, comp, faults, timeoutMs, sql, svc, times>>

\* a loop that ends without throwing TIMEOUT or returning: the promise of
\* createWait never settles and the handler stays at its await
WaitTimeoutNeverSettles(b) ==
  /\ begin[b].pc = "loop"
  /\ ~WaitContinues(begin[b].elapsed, timeoutMs)
  /\ begin' = [begin EXCEPT ![b].pc = "await"]
  /\ statusReq' = StatusIdle
  /\ UNCHANGED <<store, comp, faults, timeoutMs, sql, svc, times>>

\* the loop ends: createWait throws the TIMEOUT error, which the catch of
\* the handler turns into 202 (any other error goes on to the error save)
WaitTimeout(b) ==
  /\ begin[b].pc = "loop"
  /\ ~WaitContinues(begin[b].elapsed, timeoutMs)
  /\ LET e == JsError("TIMEOUT", "Process timeout")
     IN IF IsTimeout(e)
          THEN begin' = [begin EXCEPT ![b].pc = "done", ![b].wait = "rejected", ![b].err = e,
                  ![b].reply = Reply(202, "pending", begin[b].key, Undefined, Undefined,
                                     "/api/process/status/" \o begin[b].key, FALSE)]
          ELSE begin' = [begin EXCEPT ![b].pc = "err_find", ![b].wait = "rejected",
                                      ![b].err = e]
  /\ statusReq' = StatusIdle
  /\ UNCHANGED <<store, comp, faults, timeoutMs, sql, svc, times>>

\* catch, unexpected error: save({status: "error", error: String(e.message)})
StartErrSaveFind(b) ==
  /\ begin[b].pc = "err_find"
  /\ \E failed \in BOOLEAN :
       /\ DbCall(failed)
       /\ LET rows == SelectRow(store, begin[b].key)
          IN IF failed \/ RowsThrow(rows)
               THEN begin' = [begin EXCEPT ![b].pc = "done", ![b].reply = Unhandled500]
               ELSE begin' = [begin EXCEPT ![b].pc = "err_upsert",
                                           ![b].existing = RowsToProcessData(rows)]
  /\ statusReq' = StatusIdle
  /\ UNCHANGED <<store, comp, timeoutMs, sql, svc, times>>

StartErrSaveUpsert(b) ==
  /\ begin[b].pc = "err_upsert"
  /\ \E failed \in BOOLEAN :
       /\ DbCall(failed)
       /\ IF failed
            THEN /\ begin' = [begin EXCEPT ![b].pc = "done", ![b].reply = Unhandled500]
                 /\ UNCHANGED store
            ELSE /\ store' = upsertProcessStore(store, begin[b].key,
                       SaveMerge(ProcessData(Str("error"), Undefined, Str(begin[b].err.message)),
                                 begin[b].existing))
                 /\ begin' = [begin EXCEPT ![b].pc = "done", ![b].existing = NullPD,
                      ![b].reply = Reply(500, "error", begin[b].key, Undefined,
                                         Str(begin[b].err.message), "", FALSE)]
  /\ statusReq' = StatusIdle
  /\ UNCHANGED <<comp, timeoutMs, sql, svc, times>>

(***************************************************************************)
(* POST /complete                                                          *)
(***************************************************************************)
\* the request arrives and the handler runs up to
\* save: const existing = await findProcessStore(db, correlationId)
\* (recorded of the arrival: after202, a POST /start for the key has been
\* answered 202; inflight, the POST /start requests for the key being handled;
\* recorded of the wake: matched, its UPDATE found a row)
CompleteSaveFind(c, k, body) ==
  /\ comp[c].pc = "idle"
  /\ \A x \in CompleteIds : x < c => comp[x].pc # "idle"
  /\ Arrived < MaxRequests
  /\ \E failed \in BOOLEAN :
       /\ DbCall(failed)
       /\ LET rows == SelectRow(store, k)
              after == \E b \in BeginIds : begin[b].key = k /\ begin[b].reply.code = 202
              open == {b \in BeginIds : begin[b].key = k /\ begin[b].pc \notin {"idle", "done"}}
          IN IF failed \/ RowsThrow(rows)
               THEN comp' = [comp EXCEPT ![c].pc = "done", ![c].key = k, ![c].body = body,
                                         ![c].after202 = after, ![c].inflight = open,
                                         ![c].reply = Unhandled500]
               ELSE comp' = [comp EXCEPT ![c].pc = "save_upsert", ![c].key = k,
                                         ![c].body = body, ![c].after202 = after,
                                         ![c].inflight = open,
                                         ![c].existing = RowsToProcessData(rows)]
  /\ statusReq' = StatusIdle
  /\ UNCHANGED <<store, begin, timeoutMs, sql, svc, times>>

\* save: await upsertProcessStore(db, correlationId, updated)
CompleteSaveUpsert(c) ==
  /\ comp[c].pc = "save_upsert"
  /\ \E failed \in BOOLEAN :
       /\ DbCall(failed)
       /\ IF failed
            THEN /\ comp' = [comp EXCEPT ![c].pc = "done", ![c].reply = Unhandled500]
                 /\ UNCHANGED store
            ELSE /\ store' = upsertProcessStore(store, comp[c].key,
                       SaveMerge(ProcessData(Str(comp[c].body.status), comp[c].body.data,
                                             comp[c].body.error),
                                 comp[c].existing))
                 /\ comp' = [comp EXCEPT ![c].pc = "wake"]
  /\ statusReq' = StatusIdle
  /\ UNCHANGED <<begin, timeoutMs, sql, svc, times>>

\* completeWait returning whether the UPDATE matched a row
completeWaitRowsAffected(tbl, correlationId, payload, failed) ==
  [tbl |-> IF failed THEN tbl ELSE completeProcessStore(tbl, correlationId, payload),
   woke |-> ~failed /\ correlationId \in DOMAIN tbl]

\* completeWait(db, id, data ?? null): true unless the update throws
completeWait(tbl, correlationId, payload, failed) ==
  [tbl |-> IF failed THEN tbl ELSE completeProcessStore(tbl, correlationId, payload),
   woke |-> ~failed]

\* failWait(db, id, err): true unless the update throws
failWait(tbl, correlationId, err, failed) ==
  [tbl |-> IF failed THEN tbl ELSE failProcessStore(tbl, correlationId, err),
   woke |-> ~failed]

\* the rest of the handler: completeWait or failWait, then setTimeout of the
\* removal and reply 200
CompleteWake(c) ==
  /\ comp[c].pc = "wake"
  /\ \E failed \in BOOLEAN :
       /\ DbCall(failed)
       /\ LET body == comp[c].body
              r == IF body.status = "ok"
                     THEN completeWait(store, comp[c].key, Coalesce(body.data, Null), failed)
                     ELSE failWait(store, comp[c].key,
                            JsError("", Coalesce(body.error, Str("Unknown process error")).val),
                            failed)
          IN /\ store' = r.tbl
             /\ comp' = [comp EXCEPT ![c].pc = "done", ![c].woke = r.woke,
                                     ![c].matched = r.woke /\ comp[c].key \in DOMAIN store,
                                     ![c].existing = NullPD,
                                     ![c].timer = CleanupDelayMs,
                                     ![c].reply = Reply(200, "", "", Undefined, Undefined, "", TRUE)]
             /\ begin' = [b \in BeginIds |->
                  IF /\ r.woke
                     /\ comp[c].key \in DOMAIN store
                     /\ begin[b].key = comp[c].key
                     /\ begin[b].wait = "running"
                     /\ begin[b].termAt = NoTimer
                     /\ WaitContinues(begin[b].elapsed, timeoutMs)
                    THEN [begin[b] EXCEPT !.termAt = begin[b].elapsed]
                    ELSE begin[b]]
  /\ statusReq' = StatusIdle
  /\ UNCHANGED <<timeoutMs, sql, svc, times>>

\* the timer of the handler fires: processStore.remove(correlationId); a
\* failure is logged
CleanupFire(c) ==
  /\ comp[c].timer = 0
  /\ \E failed \in BOOLEAN :
       /\ DbCall(failed)
       /\ store' = IF failed THEN store ELSE deleteProcessStore(store, comp[c].key)
  /\ comp' = [comp EXCEPT ![c].timer = NoTimer]
  /\ statusReq' = StatusIdle
  /\ UNCHANGED <<begin, timeoutMs, sql, svc, times>>

(***************************************************************************)
(* prepareResponseService, the handler of the last task of the process     *)
(***************************************************************************)
\* the catch of the service: it logs and returns {completed: true}; what
\* its own processStore.get throws is ignored
ServiceCatch == [svc EXCEPT !.pc = "done", !.existing = NullPD, !.result = "completed"]

\* the task arrives and the service runs up to the first call of its try:
\* const processData = await ctx.app.processStore.get(correlationId)
\* (getPendingCount and hasPendingWait before it catch what they throw)
ServiceGet(k, success, reason) ==
  /\ svc.pc = "idle"
  /\ \E failed \in BOOLEAN :
       /\ DbCall(failed)
       /\ LET rows == SelectRow(store, k)
              called == [svc EXCEPT !.key = k, !.success = success, !.reason = reason]
          IN IF failed \/ RowsThrow(rows)
               THEN svc' = [ServiceCatch EXCEPT !.key = k, !.success = success,
                                                !.reason = reason]
               ELSE svc' = [called EXCEPT !.pc = "save_find"]
  /\ statusReq' = StatusIdle
  /\ UNCHANGED <<store, begin, comp, timeoutMs, sql, times>>

\* save: const existing = await findProcessStore(db, correlationId)
ServiceSaveFind ==
  /\ svc.pc = "save_find"
  /\ \E failed \in BOOLEAN :
       /\ DbCall(failed)
       /\ LET rows == SelectRow(store, svc.key)
          IN IF failed \/ RowsThrow(rows)
               THEN svc' = ServiceCatch
               ELSE svc' = [svc EXCEPT !.pc = "save_upsert",
                                       !.existing = RowsToProcessData(rows)]
  /\ statusReq' = StatusIdle
  /\ UNCHANGED <<store, begin, comp, timeoutMs, sql, times>>

\* save: await upsertProcessStore(db, correlationId, updated)
ServiceSaveUpsert ==
  /\ svc.pc = "save_upsert"
  /\ \E failed \in BOOLEAN :
       /\ DbCall(failed)
       /\ IF failed
            THEN /\ svc' = ServiceCatch
                 /\ UNCHANGED store
            ELSE /\ store' = upsertProcessStore(store, svc.key,
                       SaveMerge(ProcessData(Str(IF svc.success THEN "ok" ELSE "error"),
                                             ResponseData(svc.success),
                                             IF svc.success
                                               THEN Undefined
                                               ELSE Coalesce(svc.reason,
                                                             Str("Onboarding process failed"))),
                                 svc.existing))
                 /\ svc' = [svc EXCEPT !.pc = "wake"]
  /\ statusReq' = StatusIdle
  /\ UNCHANGED <<begin, comp, timeoutMs, sql, times>>

\* the rest of the try: hasPendingWait, completeWait or failWait, the logs,
\* setTimeout of the removal, return {completed: true}
ServiceWake ==
  /\ svc.pc = "wake"
  /\ \E failed \in BOOLEAN :
       /\ DbCall(failed)
       /\ LET r == IF svc.success
                     THEN completeWait(store, svc.key,
                                       Coalesce(ResponseData(svc.success), Null), failed)
                     ELSE failWait(store, svc.key,
                            JsError("", Coalesce(svc.reason,
                                                 Str("Onboarding process failed")).val),
                            failed)
          IN /\ store' = r.tbl
             /\ svc' = [svc EXCEPT !.pc = "done", !.woke = r.woke, !.existing = NullPD,
                                   !.scheduled = TRUE, !.timer = CleanupDelayMs,
                                   !.result = "completed"]
             /\ begin' = [b \in BeginIds |->
                  IF /\ r.woke
                     /\ svc.key \in DOMAIN store
                     /\ begin[b].key = svc.key
                     /\ begin[b].wait = "running"
                     /\ begin[b].termAt = NoTimer
                     /\ WaitContinues(begin[b].elapsed, timeoutMs)
                    THEN [begin[b] EXCEPT !.termAt = begin[b].elapsed]
                    ELSE begin[b]]
  /\ statusReq' = StatusIdle
  /\ UNCHANGED <<comp, timeoutMs, sql, times>>

\* the timer of the service fires: processStore.remove(correlationId); a
\* failure is logged
ServiceCleanupFire ==
  /\ svc.timer = 0
  /\ \E failed \in BOOLEAN :
       /\ DbCall(failed)
       /\ store' = IF failed THEN store ELSE deleteProcessStore(store, svc.key)
  /\ svc' = [svc EXCEPT !.timer = NoTimer]
  /\ statusReq' = StatusIdle
  /\ UNCHANGED <<begin, comp, timeoutMs, sql, times>>

(***************************************************************************)
(* GET /status/:correlationId                                              *)
(***************************************************************************)
statusRoute(k) ==
  /\ \E failed \in BOOLEAN :
       /\ DbCall(failed)
       /\ LET rows == IF failed THEN <<>> ELSE SelectRow(store, k)
              processData == RowsToProcessData(rows)
          IN statusReq' =
               [key |-> k, failed |-> failed, rows |-> rows,
                reply |-> IF failed \/ RowsThrow(rows) THEN Unhandled500
                          ELSE IF processData.isNull
                            THEN Reply(404, "not_found", k, Undefined, Undefined, "", FALSE)
                          ELSE Reply(statusCode(processData), processData.status.val, k,
                                     processData.data, processData.error, "", FALSE)]
  /\ UNCHANGED <<store, begin, comp, timeoutMs, sql, svc, times>>

(***************************************************************************)
(* Time                                                                    *)
(***************************************************************************)
\* the times left on the timers that are set
TimersLeft ==
  {begin[b].sleepLeft : b \in {x \in BeginIds : begin[x].pc = "sleep"}}
    \cup {comp[c].timer : c \in {x \in CompleteIds : comp[x].timer # NoTimer}}
    \cup (IF svc.timer # NoTimer THEN {svc.timer} ELSE {})

\* a handler is between two database calls, which take no time
InDatabaseCalls ==
  \/ \E b \in BeginIds : begin[b].pc \in {"save_upsert", "loop", "err_find", "err_upsert"}
  \/ \E c \in CompleteIds : comp[c].pc \in {"save_upsert", "wake"}
  \/ svc.pc \in {"save_find", "save_upsert", "wake"}

\* time advances to the next timer that is due
Tick ==
  /\ TimersLeft # {}
  /\ ~InDatabaseCalls
  /\ LET d == CHOOSE t \in TimersLeft : \A u \in TimersLeft : t <= u
     IN /\ d > 0
        /\ begin' = [b \in BeginIds |->
             IF begin[b].pc = "sleep"
               THEN [begin[b] EXCEPT !.elapsed = @ + d, !.sleepLeft = @ - d]
               ELSE begin[b]]
        /\ comp' = [c \in CompleteIds |->
             IF comp[c].timer # NoTimer
               THEN [comp[c] EXCEPT !.timer = @ - d]
               ELSE comp[c]]
        /\ svc' = IF svc.timer # NoTimer THEN [svc EXCEPT !.timer = @ - d] ELSE svc
  /\ statusReq' = StatusIdle
  /\ UNCHANGED <<store, faults, timeoutMs, sql, times>>

Next ==
  \/ \E b \in BeginIds, k \in Keys : StartSaveFind(b, k)
  \/ \E b \in BeginIds : StartSaveUpsert(b)
  \/ \E b \in BeginIds : StartTrigger(b)
  \/ \E b \in BeginIds : WaitPoll(b)
  \/ \E b \in BeginIds : WaitWake(b)
  \/ \E b \in BeginIds : WaitTimeout(b)
  \/ \E b \in BeginIds : StartErrSaveFind(b)
  \/ \E b \in BeginIds : StartErrSaveUpsert(b)
  \/ \E c \in CompleteIds, k \in Keys, body \in CompleteBodies : CompleteSaveFind(c, k, body)
  \/ \E c \in CompleteIds : CompleteSaveUpsert(c)
  \/ \E c \in CompleteIds : CompleteWake(c)
  \/ \E c \in CompleteIds : CleanupFire(c)
  \/ \E k \in Keys : statusRoute(k)
  \/ Tick

Spec == Init /\ [][Next]_vars

(***************************************************************************)
(* One POST /start among the POST /complete requests, for each of several  *)
(* values of app.config.SYNC_TIMEOUT_MS, the longest letting the delay     *)
(* reach its cap.                                                          *)
(***************************************************************************)
WaitTimeouts == {InitialDelayMs, SYNC_TIMEOUT_MS, LongTimeoutMs}

WaitInit ==
  /\ store = <<>>
  /\ begin = [b \in BeginIds |-> BeginIdle]
  /\ comp = [c \in CompleteIds |-> CompleteIdle]
  /\ statusReq = StatusIdle
  /\ faults = 0
  /\ timeoutMs \in WaitTimeouts
  /\ sql = SqlIdle
  /\ svc = SvcIdle
  /\ times = TimesIdle

WaitNext ==
  \/ \E k \in Keys : StartSaveFind(1, k)
  \/ StartSaveUpsert(1)
  \/ StartTrigger(1)
  \/ WaitPoll(1)
  \/ WaitWake(1)
  \/ WaitTimeout(1)
  \/ StartErrSaveFind(1)
  \/ StartErrSaveUpsert(1)
  \/ \E c \in CompleteIds, k \in Keys, body \in CompleteBodies : CompleteSaveFind(c, k, body)
  \/ \E c \in CompleteIds : CompleteSaveUpsert(c)
  \/ \E c \in CompleteIds : CompleteWake(c)
  \/ \E c \in CompleteIds : CleanupFire(c)
  \/ Tick

WaitSpec == WaitInit /\ [][WaitNext]_vars

(***************************************************************************)
(* The POST /complete requests and their cleanup timers alone.             *)
(***************************************************************************)
SignalNext ==
  \/ \E c \in CompleteIds, k \in Keys, body \in CompleteBodies : CompleteSaveFind(c, k, body)
  \/ \E c \in CompleteIds : CompleteSaveUpsert(c)
  \/ \E c \in CompleteIds : CompleteWake(c)
  \/ \E c \in CompleteIds : CleanupFire(c)
  \/ Tick

SignalSpec == Init /\ [][SignalNext]_vars

(***************************************************************************)
(* One POST /start, one POST /complete with status "ok" and each of the    *)
(* payloads, and the GET /status requests.                                 *)
(***************************************************************************)
PayloadBodies ==
  {[status |-> "ok", data |-> P, error |-> Undefined] : P \in Payloads}

RoundTripNext ==
  \/ \E k \in Keys : StartSaveFind(1, k)
  \/ StartSaveUpsert(1)
  \/ StartTrigger(1)
  \/ WaitPoll(1)
  \/ WaitWake(1)
  \/ WaitTimeout(1)
  \/ StartErrSaveFind(1)
  \/ StartErrSaveUpsert(1)
  \/ \E k \in Keys, body \in PayloadBodies : CompleteSaveFind(1, k, body)
  \/ CompleteSaveUpsert(1)
  \/ CompleteWake(1)
  \/ CleanupFire(1)
  \/ \E k \in Keys : statusRoute(k)
  \/ Tick

RoundTripSpec == Init /\ [][RoundTripNext]_vars

(***************************************************************************)
(* One POST /start and the task handler that completes its process.        *)
(***************************************************************************)
\* input.reason: absent, or the reason of the failed step
Reasons == {Undefined, Str("boom")}

ServiceNext ==
  \/ \E k \in Keys : StartSaveFind(1, k)
  \/ StartSaveUpsert(1)
  \/ StartTrigger(1)
  \/ WaitPoll(1)
  \/ WaitWake(1)
  \/ WaitTimeout(1)
  \/ StartErrSaveFind(1)
  \/ StartErrSaveUpsert(1)
  \/ \E k \in Keys, success \in BOOLEAN, reason \in Reasons : ServiceGet(k, success, reason)
  \/ ServiceSaveFind
  \/ ServiceSaveUpsert
  \/ ServiceWake
  \/ ServiceCleanupFire
  \/ Tick

ServiceSpec == Init /\ [][ServiceNext]_vars

(***************************************************************************)
(* A server instance closes while another instance handles a POST /start   *)
(* and a POST /complete on two keys: the onClose hook of the process-store *)
(* plugin.                                                                 *)
(***************************************************************************)
ShutdownKeys == {"K1", "K2"}

\* app.addHook("onClose", ...): await clearAll(app.db, "server shutdown")
OnClose ==
  /\ \E failed \in BOOLEAN :
       /\ DbCall(failed)
       /\ store' = clearAll(store, Str("server shutdown"), failed).tbl
  /\ statusReq' = StatusIdle
  /\ UNCHANGED <<begin, comp, timeoutMs, sql, svc, times>>

ShutdownNext ==
  \/ \E k \in ShutdownKeys : StartSaveFind(1, k)
  \/ StartSaveUpsert(1)
  \/ StartTrigger(1)
  \/ WaitPoll(1)
  \/ WaitWake(1)
  \/ WaitTimeout(1)
  \/ StartErrSaveFind(1)
  \/ StartErrSaveUpsert(1)
  \/ \E k \in ShutdownKeys, body \in CompleteBodies : CompleteSaveFind(1, k, body)
  \/ CompleteSaveUpsert(1)
  \/ CompleteWake(1)
  \/ CleanupFire(1)
  \/ OnClose
  \/ Tick

ShutdownSpec == Init /\ [][ShutdownNext]_vars

\* the steps a handler that has started goes on to take
HandlerStep ==
  \/ StartSaveUpsert(1)
  \/ StartTrigger(1)
  \/ WaitPoll(1)
  \/ WaitWake(1)
  \/ WaitTimeout(1)
  \/ StartErrSaveFind(1)
  \/ StartErrSaveUpsert(1)
  \/ CompleteSaveUpsert(1)
  \/ CompleteWake(1)

\* the event loop runs every handler on, time passes and every timer that
\* is due fires; requests and shutdowns come or not
LiveSpec ==
  /\ ShutdownSpec
  /\ WF_vars(HandlerStep)
  /\ WF_vars(CleanupFire(1))
  /\ WF_vars(Tick)

(***************************************************************************)
(* The batch of upsertProcessStore, statement by statement, run by         *)
(* concurrent connections on one key.                                      *)
(***************************************************************************)
\* the ProcessData the callers of upsertProcessStore pass
UpsertData ==
  { ProcessData(Str("pending"), QueuedData, Undefined),
    ProcessData(Str("ok"), PayloadX, Undefined),
    ProcessData(Str("error"), Undefined, Str("boom")) }

\* an UPDATE without table hints: it waits for no other transaction
LockBlocksNever(holder, p) == FALSE

\* UPDATE ... WITH (UPDLOCK, HOLDLOCK): the key-range update lock that
\* another open transaction holds on the key blocks the statement
LockBlocks(holder, p) == holder # NoHolder /\ holder # p

\* BEGIN TRAN; UPDATE ... WHERE correlation_id = @p1: takes the lock and
\* holds it to the end of the transaction, whether or not a row matched
TxUpdate(p, k, data) ==
  /\ sql.tx[p].pc = "idle"
  /\ ~LockBlocks(sql.lock, p)
  /\ store' = IF k \in DOMAIN store THEN upsertProcessStore(store, k, data) ELSE store
  /\ sql' = [lock |-> p,
             tx |-> [sql.tx EXCEPT ![p] =
                       [pc |-> "updated", key |-> k, data |-> data,
                        rowcount |-> IF k \in DOMAIN store THEN 1 ELSE 0, err |-> ""]]]
  /\ UNCHANGED <<begin, comp, statusReq, faults, timeoutMs, svc, times>>

\* the UPDATE waits for the lock longer than the LOCK_TIMEOUT that
\* pollProcessStore has set on the pooled connection: error 1222
TxLockTimeout(p, k, data) ==
  /\ sql.tx[p].pc = "idle"
  /\ LockBlocks(sql.lock, p)
  /\ sql' = [sql EXCEPT !.tx[p] =
               [pc |-> "failed", key |-> k, data |-> data, rowcount |-> 0,
                err |-> "lock_timeout"]]
  /\ UNCHANGED <<store, begin, comp, statusReq, faults, timeoutMs, svc, times>>

\* IF @@ROWCOUNT = 0 INSERT ...: a row with the key makes the INSERT fail
\* with a primary key violation
TxInsert(p) ==
  /\ sql.tx[p].pc = "updated"
  /\ sql.tx[p].rowcount = 0
  /\ IF sql.tx[p].key \in DOMAIN store
       THEN /\ sql' = [lock |-> IF sql.lock = p THEN NoHolder ELSE sql.lock,
                       tx |-> [sql.tx EXCEPT ![p].pc = "failed",
                                             ![p].err = "duplicate_key"]]
            /\ UNCHANGED store
       ELSE /\ store' = upsertProcessStore(store, sql.tx[p].key, sql.tx[p].data)
            /\ sql' = [sql EXCEPT !.tx[p].pc = "inserted"]
  /\ UNCHANGED <<begin, comp, statusReq, faults, timeoutMs, svc, times>>

\* COMMIT TRAN: the lock is released
TxCommit(p) ==
  /\ \/ sql.tx[p].pc = "updated" /\ sql.tx[p].rowcount = 1
     \/ sql.tx[p].pc = "inserted"
  /\ sql' = [lock |-> IF sql.lock = p THEN NoHolder ELSE sql.lock,
             tx |-> [sql.tx EXCEPT ![p].pc = "done"]]
  /\ UNCHANGED <<store, begin, comp, statusReq, faults, timeoutMs, svc, times>>

UpsertNext ==
  \/ \E p \in TxIds, k \in Keys, data \in UpsertData : TxUpdate(p, k, data)
  \/ \E p \in TxIds, k \in Keys, data \in UpsertData : TxLockTimeout(p, k, data)
  \/ \E p \in TxIds : TxInsert(p)
  \/ \E p \in TxIds : TxCommit(p)

UpsertSpec == Init /\ [][UpsertNext]_vars

(***************************************************************************)
(* Properties                                                              *)
(***************************************************************************)
\* the row a Completion Signal with this body is to leave: DONE with the
\* serialised data (null when there is none), or ERROR with the message
SignalRow(body) ==
  IF body.status = "ok"
    THEN Row("DONE", Text(JSONstringify(Coalesce(body.data, Null))), NULL)
    ELSE Row("ERROR", NULL,
             Text(JSONstringify(ErrorObject(
               Coalesce(body.error, Str("Unknown process error")).val))))

\* the POST /complete handled by c is finished and the row of k is the
\* terminal row it wrote
SignalMadeTerminal(c, k) ==
  /\ comp[c].pc = "done"
  /\ comp[c].woke
  /\ comp[c].key = k
  /\ k \in DOMAIN store
  /\ store[k] = SignalRow(comp[c].body)

\* C1: once a Completion Signal has made the row of a key terminal, a later
\* Completion Signal for that key (one that found this terminal row when it
\* arrived), whatever its outcome and payload, leaves the row's status,
\* payload_json and error_json as the first one set them. Stated for the
\* runs in which nothing but the two signals writes the row and no database
\* call fails: no POST /start has arrived and the cleanup of the first
\* signal is not yet due.
C1_LaterSignalKeepsTerminalRow ==
  [][\A c \in CompleteIds, c0 \in CompleteIds :
       (/\ c # c0
        /\ comp[c0].pc = "done"
        /\ comp[c0].woke
        /\ comp[c0].timer > 0
        /\ comp[c].key = comp[c0].key
        /\ comp[c].pc = "wake"
        /\ comp'[c].pc = "done"
        /\ comp[c].existing = RowToProcessData(SignalRow(comp[c0].body))
        /\ \A b \in BeginIds : begin[b].pc = "idle"
        /\ faults' = 0)
       => /\ comp[c].key \in DOMAIN store'
          /\ store'[comp[c].key] = SignalRow(comp[c0].body)]_vars

\* C2: the PENDING upsert of the initial save of POST /start, applied to a
\* row that a Completion Signal has made DONE or ERROR, leaves that row as
\* it is.
C2_PendingUpsertKeepsTerminalRow ==
  [][\A b \in BeginIds :
       (/\ begin[b].pc = "save_upsert"
        /\ begin'[b].pc # "save_upsert"
        /\ faults' = faults
        /\ \E c \in CompleteIds : SignalMadeTerminal(c, begin[b].key)
        /\ store[begin[b].key].status \in {"DONE", "ERROR"})
       => /\ begin[b].key \in DOMAIN store'
          /\ store'[begin[b].key] = store[begin[b].key]]_vars

\* C3: GET /status/:correlationId whose read succeeds replies 404 when the
\* key has no row, 200 when the row is DONE, 202 when it is PENDING and 500
\* when it is ERROR.
C3_StatusCodeFollowsRow ==
  (statusReq.reply.code # 0 /\ ~statusReq.failed) =>
    LET rows == statusReq.rows
        code == statusReq.reply.code
    IN /\ Len(rows) = 0 => code = 404
       /\ (Len(rows) = 1 /\ rows[1].status = "DONE") => code = 200
       /\ (Len(rows) = 1 /\ rows[1].status = "PENDING") => code = 202
       /\ (Len(rows) = 1 /\ rows[1].status = "ERROR") => code = 500

\* C4: a poll of createWait before the deadline that reads a row with
\* status ERROR ends the wait at that poll: createWait rejects with an
\* error that carries the message of the row and has no code TIMEOUT.
C4_ErrorRowRejectsWait ==
  [][\A b \in BeginIds :
       (/\ begin[b].pc = "loop"
        /\ begin'[b].pc # "loop"
        /\ WaitContinues(begin[b].elapsed, timeoutMs)
        /\ faults' = faults
        /\ begin[b].key \in DOMAIN store
        /\ store[begin[b].key].status = "ERROR"
        /\ ~RowThrows(store[begin[b].key]))
       => /\ begin'[b].wait = "rejected"
          /\ begin'[b].err.code # "TIMEOUT"
          /\ ColTruthy(store[begin[b].key].error_json) =>
               Str(begin'[b].err.message)
                 = MessageOf(JSONparse(store[begin[b].key].error_json[1]))]_vars

\* C5: createWait resolves only on a poll that returned a row with status
\* DONE, and resolves with the deserialised payload_json of that row (null
\* when the row has none).
C5_ResolvesOnlyOnDoneRow ==
  \A b \in BeginIds :
    begin[b].wait = "resolved" =>
      /\ Len(begin[b].polled) = 1
      /\ begin[b].polled[1].status = "DONE"
      /\ begin[b].reply.result =
           IF begin[b].polled[1].payload_json = NULL
             THEN Null
             ELSE JSONparse(begin[b].polled[1].payload_json[1])

C5_Witness ==
  \E b \in BeginIds :
    /\ begin[b].wait = "resolved"
    /\ begin[b].polled = <<Row("DONE", Text("{\"x\":1}"), NULL)>>
    /\ begin[b].reply.result = PayloadX

\* C6: a createWait that ends without any poll having returned a terminal
\* row rejects with code TIMEOUT and message "Process timeout"; and no
\* createWait rejects with TIMEOUT before timeoutMs have elapsed since it
\* started.
C6_TimeoutOnlyAtDeadline ==
  \A b \in BeginIds :
    /\ (begin[b].wait \in {"resolved", "rejected"} /\ ~begin[b].sawTerminal) =>
         /\ begin[b].wait = "rejected"
         /\ begin[b].err = JsError("TIMEOUT", "Process timeout")
    /\ begin[b].err.code = "TIMEOUT" => begin[b].elapsed >= timeoutMs

C6_Witness ==
  \E b \in BeginIds :
    /\ begin[b].wait = "rejected"
    /\ ~begin[b].sawTerminal
    /\ begin[b].err.code = "TIMEOUT"
    /\ begin[b].elapsed >= timeoutMs

\* no step of a running createWait and no step of the timeout branch of
\* POST /start changes the table, and the wait that times out is answered
\* 202 with the same correlationId and statusUrl
\* /api/process/status/<correlationId>
TimeoutWritesNothing ==
  [][\A b \in BeginIds :
       /\ (begin[b].wait = "running" /\ begin'[b] # begin[b]) => store' = store
       /\ (begin[b].wait = "running" /\ begin'[b].err.code = "TIMEOUT") =>
            /\ begin'[b].pc = "done"
            /\ begin'[b].reply =
                 Reply(202, "pending", begin[b].key, Undefined, Undefined,
                       "/api/process/status/" \o begin[b].key, FALSE)
       /\ (begin[b].err.code = "TIMEOUT" /\ begin'[b] # begin[b]) => store' = store]_vars

\* C7: a Begin whose wait ends in timeout replies 202 with its correlationId
\* and statusUrl, neither the wait nor the timeout branch writes or deletes
\* the row, and a GET /status that afterwards reads the row of that key still
\* PENDING replies 202.
C7_TimeoutIsReadOnly ==
  /\ TimeoutWritesNothing
  /\ [](\A b \in BeginIds :
          (/\ begin[b].reply.code = 202
           /\ statusReq.reply.code # 0
           /\ statusReq.key = begin[b].key
           /\ ~statusReq.failed
           /\ Len(statusReq.rows) = 1
           /\ statusReq.rows[1].status = "PENDING")
          => statusReq.reply.code = 202)

\* C8: after POST /start for K was answered 202 and a POST /complete for K
\* with status ok and data P that arrived later was answered, a GET /status
\* for K answered before the cleanup of that completion is due replies 200
\* with data P (no other completion for K being handled).
C8_StatusAfterLateComplete ==
  \A b \in BeginIds, c \in CompleteIds :
    (/\ begin[b].reply.code = 202
     /\ comp[c].pc = "done"
     /\ comp[c].after202
     /\ comp[c].key = begin[b].key
     /\ comp[c].body.status = "ok"
     /\ comp[c].woke
     /\ comp[c].reply.code = 200
     /\ comp[c].timer > 0
     /\ \A c2 \in CompleteIds \ {c} : comp[c2].pc = "idle"
     /\ statusReq.reply.code # 0
     /\ statusReq.key = comp[c].key
     /\ ~statusReq.failed)
    => /\ statusReq.reply.code = 200
       /\ statusReq.reply.result = Coalesce(comp[c].body.data, Null)

\* C9: every POST /complete is answered 200 {received: true}.
C9_CompleteAlwaysReplies200 ==
  \A c \in CompleteIds :
    comp[c].pc = "done" =>
      comp[c].reply = Reply(200, "", "", Undefined, Undefined, "", TRUE)

\* C10: a step of the handler of POST /complete that writes the table
\* writes the final terminal row of the signal: the handler shows no other
\* row state to a concurrent reader.
C10_SignalWritesOnlyTerminalRow ==
  [][\A c \in CompleteIds :
       (/\ comp'[c].pc # comp[c].pc
        /\ store' # store)
       => /\ comp'[c].key \in DOMAIN store'
          /\ store'[comp'[c].key] = SignalRow(comp'[c].body)]_vars

\* C11: the status column of every row of process_store is PENDING, DONE or
\* ERROR, in every reachable state.
C11_StatusColumnIsEnum ==
  \A k \in DOMAIN store : store[k].status \in {"PENDING", "DONE", "ERROR"}

\* C12: no row has both payload_json and error_json non-null.
C12_PayloadsExclusive ==
  \A k \in DOMAIN store :
    ~(store[k].payload_json # NULL /\ store[k].error_json # NULL)

\* C13: payload_json of a row is non-null only if its status is DONE, and
\* error_json is non-null only if its status is ERROR.
C13_PayloadOnlyWhenTerminal ==
  \A k \in DOMAIN store :
    /\ store[k].payload_json # NULL => store[k].status = "DONE"
    /\ store[k].error_json # NULL => store[k].status = "ERROR"

OutcomeReply(k, body) ==
  IF body.status = "ok"
    THEN Reply(200, "ok", k, Coalesce(body.data, Null), Undefined, "", FALSE)
    ELSE Reply(500, "error", k, Undefined,
               Coalesce(body.error, Str("Unknown process error")), "", FALSE)

\* C15: when two POST /start for the same key are being handled together
\* and the one Completion Signal for the key arrives and is processed while
\* both are, then (no query failing and the engine starting both) each of
\* them observes the outcome of that signal: it is answered with it, or it
\* is answered 202 and, until the cleanup, the row it is sent to poll holds
\* it. So neither is answered with an error and both observe the same
\* outcome.
C15_DuplicateBeginsSameOutcome ==
  \A b1, b2 \in BeginIds, c \in CompleteIds :
    (/\ b1 # b2
     /\ comp[c].pc = "done" /\ comp[c].woke /\ comp[c].timer > 0
     /\ comp[c].inflight = {b1, b2}
     /\ \A x \in CompleteIds \ {c} : comp[x].pc = "idle"
     /\ begin[b1].pc = "done" /\ begin[b2].pc = "done"
     /\ faults = 0
     /\ \A b \in {b1, b2} :
          begin[b].err.message # "Failed to start Camunda process: connect ECONNREFUSED")
    => \A b \in {b1, b2} :
         \/ begin[b].reply = OutcomeReply(comp[c].key, comp[c].body)
         \/ /\ begin[b].reply.code = 202
            /\ comp[c].key \in DOMAIN store
            /\ store[comp[c].key] = SignalRow(comp[c].body)

\* C16: a poll of createWait whose query fails does not end the wait: the
\* loop goes to its sleep with the delay it had, the wait still running; and
\* a wait that had a failed poll and ends without a poll having returned a
\* terminal row ends with TIMEOUT, not before the deadline.
C16_FailedPollContinues ==
  /\ [][\A b \in BeginIds :
          (/\ begin[b].pc = "loop"
           /\ begin'[b].polls = begin[b].polls + 1
           /\ faults' = faults + 1)
          => /\ begin'[b].pc = "sleep"
             /\ begin'[b].wait = "running"
             /\ begin'[b].sleepLeft = begin[b].delay
             /\ begin'[b].reply = NoReply]_vars
  /\ [](\A b \in BeginIds :
          (/\ begin[b].pollFailed
           /\ begin[b].wait \in {"resolved", "rejected"}
           /\ ~begin[b].sawTerminal)
          => /\ begin[b].err = JsError("TIMEOUT", "Process timeout")
             /\ begin[b].elapsed >= timeoutMs)

C16_Witness ==
  \E b \in BeginIds :
    /\ begin[b].pollFailed
    /\ begin[b].polls >= 2
    /\ ~begin[b].sawTerminal
    /\ begin[b].err.code = "TIMEOUT"
    /\ begin[b].reply.code = 202

\* C17: a poll of createWait that finds no row for the key neither resolves
\* nor rejects: as for a readable PENDING row, the loop goes to its sleep
\* with the delay it had and the wait keeps running; and a wait that missed
\* the row and resolves later resolves on a polled DONE row.
C17_MissingRowKeepsPolling ==
  /\ [][\A b \in BeginIds :
          (/\ begin[b].pc = "loop"
           /\ begin'[b].polls = begin[b].polls + 1
           /\ faults' = faults
           /\ \/ begin[b].key \notin DOMAIN store
              \/ /\ begin[b].key \in DOMAIN store
                 /\ store[begin[b].key].status = "PENDING"
                 /\ ~RowThrows(store[begin[b].key]))
          => /\ begin'[b].pc = "sleep"
             /\ begin'[b].wait = "running"
             /\ begin'[b].sleepLeft = begin[b].delay
             /\ begin'[b].delay = begin[b].delay
             /\ begin'[b].err = begin[b].err
             /\ begin'[b].reply = NoReply]_vars
  /\ [](\A b \in BeginIds :
          (begin[b].missed /\ begin[b].wait = "resolved")
          => /\ Len(begin[b].polled) = 1
             /\ begin[b].polled[1].status = "DONE")

C17_Witness ==
  \E b \in BeginIds :
    /\ begin[b].missed
    /\ begin[b].wait = "resolved"
    /\ begin[b].polled = <<Row("DONE", Text("{\"x\":1}"), NULL)>>
    /\ begin[b].reply = Reply(200, "ok", "K1", PayloadX, Undefined, "", FALSE)

C19_TimeoutWithinOneInterval ==
  \A b \in BeginIds :
    begin[b].err.code = "TIMEOUT" =>
      /\ begin[b].elapsed <= timeoutMs + begin[b].slept
      /\ begin[b].slept <= MaxDelayMs

C19_Witness ==
  \E b \in BeginIds :
    /\ begin[b].err.code = "TIMEOUT"
    /\ timeoutMs = LongTimeoutMs
    /\ begin[b].slept = MaxDelayMs
    /\ begin[b].elapsed > timeoutMs

\* C20: when a Completion Signal makes the row of the key terminal before
\* the deadline of a running createWait, the wait does not end in TIMEOUT,
\* and it ends within one poll interval of that moment.
C20_TerminalSeenWithinOneInterval ==
  \A b \in BeginIds :
    begin[b].termAt # NoTimer =>
      /\ begin[b].err.code # "TIMEOUT"
      /\ begin[b].elapsed <= begin[b].termAt + begin[b].slept

\* C21: no cleanup delete removes a row whose most recent terminal write
\* happened less than the grace delay earlier: when a cleanup timer deletes
\* the row of a key, no Completion Signal whose own cleanup is not yet due
\* (it woke less than 5000 ms ago) has written the row that is deleted.
C21_CleanupKeepsFreshTerminalRow ==
  [][\A k \in Keys :
       (k \in DOMAIN store /\ k \notin DOMAIN store')
       => ~\E c \in CompleteIds :
             /\ comp[c].key = k
             /\ comp[c].pc = "done"
             /\ comp[c].woke
             /\ comp[c].timer > 0
             /\ store[k] = SignalRow(comp[c].body)]_vars

\* C22: a GET /status for K answered after a POST /complete for K has
\* delivered its signal and been answered 200 and before the cleanup of that completion is due (no other
\* request being handled, the read succeeding) finds the row, never 404, and
\* reports the outcome of that completion: 200 with its data (null when it
\* had none), or 500 with its error message.
C22_StatusRightAfterComplete ==
  \A c \in CompleteIds :
    (/\ comp[c].pc = "done"
     /\ comp[c].reply.code = 200
     /\ comp[c].woke
     /\ comp[c].timer > 0
     /\ \A x \in CompleteIds \ {c} : comp[x].pc \in {"idle", "done"}
     /\ \A b \in BeginIds : begin[b].pc \in {"idle", "done"}
     /\ statusReq.reply.code # 0
     /\ statusReq.key = comp[c].key
     /\ ~statusReq.failed)
    => /\ statusReq.reply.code # 404
       /\ statusReq.reply.code = OutcomeReply(comp[c].key, comp[c].body).code
       /\ statusReq.reply.result = OutcomeReply(comp[c].key, comp[c].body).result
       /\ statusReq.reply.error = OutcomeReply(comp[c].key, comp[c].body).error

\* this step is a step of a POST /complete handler for the key k
SignalStep(k) ==
  \E c \in CompleteIds :
    /\ comp'[c].pc # comp[c].pc
    /\ comp'[c].key = k

\* this step is the PENDING upsert of the initial save of a POST /start for k
CreatorStep(k) ==
  \E b \in BeginIds :
    /\ begin[b].pc = "save_upsert"
    /\ begin'[b].pc = "trigger"
    /\ begin[b].key = k

\* C23: between its creation and its deletion the row of a key is written
\* only by the PENDING upsert of POST /start and by a Completion Signal for
\* that key; a row becomes DONE or ERROR only in a step of a Completion
\* Signal for its key (not in a step of POST /start, nor when a server
\* instance closes); and a row that is DONE or ERROR is not written again.
C23_OnlyCreatorAndSignalWrite ==
  [][\A k \in ShutdownKeys :
       LET written == k \in DOMAIN store' /\ (k \notin DOMAIN store \/ store'[k] # store[k])
           wasTerminal == k \in DOMAIN store /\ store[k].status \in {"DONE", "ERROR"}
           isTerminal == k \in DOMAIN store' /\ store'[k].status \in {"DONE", "ERROR"}
       IN /\ written => (CreatorStep(k) \/ SignalStep(k))
          /\ (isTerminal /\ ~wasTerminal) => SignalStep(k)
          /\ wasTerminal => ~written]_vars

\* C24: every row that reaches status DONE or ERROR is eventually deleted
\* from process_store, when timers fire and no database call fails.
C24_TerminalRowEventuallyDeleted ==
  \A k \in ShutdownKeys :
    (k \in DOMAIN store /\ store[k].status \in {"DONE", "ERROR"})
      ~> (k \notin DOMAIN store \/ faults > 0)

\* the message a GET /status reads from the row
RowMessage(row) == RowToProcessData(row).error

\* C25: clearAll(db, reason) sets every PENDING row to ERROR with an error
\* message "Aborted: <reason>" (reason "shutdown" when none is given) and
\* leaves every DONE and every ERROR row unchanged, adding and removing no
\* row; it never throws, also when its query fails. The onClose hook applies
\* it with the reason "server shutdown".
C25_ClearAllAbortsPendingOnly ==
  /\ [](\A reason \in {Undefined, Str("server shutdown")}, failed \in BOOLEAN :
          LET r == clearAll(store, reason, failed)
              text == IF reason = Undefined THEN "shutdown" ELSE reason.val
          IN /\ ~r.threw
             /\ DOMAIN r.tbl = DOMAIN store
             /\ ~failed =>
                  \A k \in DOMAIN store :
                    /\ store[k].status = "PENDING" =>
                         /\ r.tbl[k].status = "ERROR"
                         /\ ~RowThrows(r.tbl[k])
                         /\ RowMessage(r.tbl[k]) = Str("Aborted: " \o text)
                    /\ store[k].status \in {"DONE", "ERROR"} => r.tbl[k] = store[k])
  /\ [][(store' # store /\ UNCHANGED <<begin, comp, svc>>)
        => /\ DOMAIN store' = DOMAIN store
           /\ \A k \in DOMAIN store :
                /\ store[k].status = "PENDING" =>
                     /\ store'[k].status = "ERROR"
                     /\ RowMessage(store'[k]) = Str("Aborted: server shutdown")
                /\ store[k].status \in {"DONE", "ERROR"} => store'[k] = store[k]]_vars

\* the hook has run with the row of K1 PENDING and the row of K2 DONE
C25_Witness ==
  /\ DOMAIN store = {"K1", "K2"}
  /\ store["K1"] = Row("ERROR", Text("{\"step\":\"queued\"}"),
                       Text("{\"message\":\"Aborted: server shutdown\"}"))
  /\ store["K2"] = Row("DONE", Text("{\"x\":1}"), NULL)
  /\ begin[1].wait = "running"

C27_PayloadRoundTrip ==
  /\ (/\ comp[1].woke
      /\ statusReq.reply.code # 0
      /\ ~statusReq.failed
      /\ Len(statusReq.rows) = 1
      /\ statusReq.rows[1].status = "DONE")
     => statusReq.reply.result = comp[1].body.data
  /\ begin[1].wait = "resolved" =>
       /\ comp[1].woke
       /\ begin[1].reply.code = 200
       /\ begin[1].reply.result = comp[1].body.data

\* the falsy payload 0 has gone round both ways
C27_Witness ==
  /\ comp[1].woke
  /\ comp[1].body.data = Num("0")
  /\ begin[1].wait = "resolved"
  /\ begin[1].reply.result = Num("0")
  /\ statusReq.reply.result = Num("0")
  /\ statusReq.rows = <<Row("DONE", Text("0"), NULL)>>

\* C28: a POST /start whose startProcessInstance fails never starts waiting,
\* so it makes no poll of the table, and the reply it ends with is 500 with
\* an error in its body.
C28_TriggerFailureReplies500 ==
  \A b \in BeginIds :
    begin[b].err.message = "Failed to start Camunda process: connect ECONNREFUSED" =>
      /\ begin[b].wait = "none"
      /\ begin[b].polls = 0
      /\ begin[b].pc \in {"err_find", "err_upsert", "done"}
      /\ begin[b].pc = "done" =>
           /\ begin[b].reply.code = 500
           /\ begin[b].reply.error.type = "string"
           /\ begin[b].reply.error.val # ""

C28_Witness ==
  /\ begin[1].pc = "done"
  /\ begin[1].polls = 0
  /\ begin[1].reply = Reply(500, "error", "K1", Undefined,
                            Str("Failed to start Camunda process: connect ECONNREFUSED"),
                            "", FALSE)
  /\ "K1" \in DOMAIN store
  /\ store["K1"].status = "ERROR"

\* C29: prepareResponseService never throws and returns {completed: true}
\* in every case; and when writing the final state fails or the delivery of
\* the completion signal fails (completeWait or failWait did not return
\* true), it has scheduled no cleanup delete.
C29_ServiceAlwaysCompletes ==
  /\ ~svc.threw
  /\ svc.pc = "done" => svc.result = "completed"
  /\ (svc.pc = "done" /\ ~svc.woke) => (~svc.scheduled /\ svc.timer = NoTimer)

\* C30: processStore.save(key, partial), here the save of POST /complete,
\* writes for each of status, data and error the value of partial when it
\* is supplied and otherwise the value stored for the key (status "pending"
\* when there is no row): a processStore.get of the key after the save
\* returns these values.
C30_SaveMergesPartial ==
  [][\A c \in CompleteIds :
       (comp[c].pc = "save_upsert" /\ comp'[c].pc = "wake")
       => LET partial == comp[c].body
              existing == comp[c].existing
              k == comp[c].key
          IN /\ k \in DOMAIN store'
             /\ ~RowThrows(store'[k])
             /\ RowToProcessData(store'[k]).status = Str(partial.status)
             /\ RowToProcessData(store'[k]).data =
                  (IF ~Nullish(partial.data) THEN partial.data ELSE existing.data)
             /\ RowToProcessData(store'[k]).error =
                  (IF ~Nullish(partial.error) THEN partial.error ELSE existing.error)]_vars

(***************************************************************************)
(* The statements of the repository run against the clock of the database  *)
(* server: every write takes SYSUTCDATETIME() for the timestamps it sets.  *)
(***************************************************************************)
\* the clock readings of the runs: SYSUTCDATETIME() in 0 .. MaxClock
MaxClock == 3

\* the started_at and updated_at of one row
Stamps(started, updated) == [started_at |-> started, updated_at |-> updated]

\* an upsert whose UPDATE sets started_at as its INSERT does
StampsOfUpsertRestart(at, correlationId, now) ==
  IF correlationId \in DOMAIN at
    THEN [at EXCEPT ![correlationId] = Stamps(now, now)]
    ELSE at @@ (correlationId :> Stamps(now, now))

\* upsertProcessStore: the UPDATE sets updated_at = SYSUTCDATETIME(); the
\* INSERT of a missing row sets started_at and updated_at to it
StampsOfUpsert(at, correlationId, now) ==
  IF correlationId \in DOMAIN at
    THEN [at EXCEPT ![correlationId].updated_at = now]
    ELSE at @@ (correlationId :> Stamps(now, now))

\* completeProcessStore and failProcessStore: updated_at = SYSUTCDATETIME()
\* WHERE correlation_id = @p1
StampsOfUpdate(at, correlationId, now) ==
  IF correlationId \in DOMAIN at
    THEN [at EXCEPT ![correlationId].updated_at = now]
    ELSE at

\* clearAll: updated_at = SYSUTCDATETIME() WHERE status = 'PENDING'
StampsOfClearAll(at, tbl, now) ==
  [k \in DOMAIN at |->
     IF tbl[k].status = "PENDING" THEN [at[k] EXCEPT !.updated_at = now] ELSE at[k]]

\* DELETE WHERE correlation_id = @p1
StampsOfDelete(at, correlationId) ==
  [k \in DOMAIN at \ {correlationId} |-> at[k]]

ClockUpsert(k, data) ==
  /\ store' = upsertProcessStore(store, k, data)
  /\ times' = [times EXCEPT !.at = StampsOfUpsert(times.at, k, times.now)]
  /\ UNCHANGED <<begin, comp, statusReq, faults, timeoutMs, sql, svc>>

ClockComplete(k, payload) ==
  /\ store' = completeProcessStore(store, k, payload)
  /\ times' = [times EXCEPT !.at = StampsOfUpdate(times.at, k, times.now)]
  /\ UNCHANGED <<begin, comp, statusReq, faults, timeoutMs, sql, svc>>

ClockFail(k, err) ==
  /\ store' = failProcessStore(store, k, err)
  /\ times' = [times EXCEPT !.at = StampsOfUpdate(times.at, k, times.now)]
  /\ UNCHANGED <<begin, comp, statusReq, faults, timeoutMs, sql, svc>>

ClockClearAll(reason) ==
  /\ store' = clearAll(store, reason, FALSE).tbl
  /\ times' = [times EXCEPT !.at = StampsOfClearAll(times.at, store, times.now)]
  /\ UNCHANGED <<begin, comp, statusReq, faults, timeoutMs, sql, svc>>

ClockDelete(k) ==
  /\ store' = deleteProcessStore(store, k)
  /\ times' = [times EXCEPT !.at = StampsOfDelete(times.at, k)]
  /\ UNCHANGED <<begin, comp, statusReq, faults, timeoutMs, sql, svc>>

\* the clock of the server moves on between two statements
ClockAdvance ==
  /\ times.now < MaxClock
  /\ times' = [times EXCEPT !.now = @ + 1]
  /\ UNCHANGED <<store, begin, comp, statusReq, faults, timeoutMs, sql, svc>>

ClockNext ==
  \/ \E k \in ShutdownKeys, data \in UpsertData : ClockUpsert(k, data)
  \/ \E k \in ShutdownKeys : ClockComplete(k, PayloadX)
  \/ \E k \in ShutdownKeys : ClockFail(k, JsError("", "boom"))
  \/ ClockClearAll(Str("server shutdown"))
  \/ \E k \in ShutdownKeys : ClockDelete(k)
  \/ ClockAdvance

ClockSpec == Init /\ [][ClockNext]_vars

\* C31: for every key, a write to a row that exists (upsert, complete, fail,
\* clearAll) never decreases its updated_at and never changes its started_at,
\* and the write that inserts a row sets its started_at to the clock; every
\* row carries its two timestamps
C31_TimestampsMonotone ==
  /\ [](DOMAIN times.at = DOMAIN store)
  /\ [][\A k \in DOMAIN store' :
          IF k \in DOMAIN store
            THEN /\ times'.at[k].updated_at >= times.at[k].updated_at
                 /\ times'.at[k].started_at = times.at[k].started_at
            ELSE /\ times'.at[k].started_at = times.now
                 /\ times'.at[k].updated_at = times.now]_vars

\* a row inserted at clock 0 that completeProcessStore has written at clock 2
C31_Witness ==
  /\ "K1" \in DOMAIN store
  /\ store["K1"].status = "DONE"
  /\ times.at["K1"] = Stamps(0, 2)

\* C32: with only successful POST /complete requests on the key, a POST
\* /start that has begun to poll never replies with an error, whatever row
\* its polls find between the store writes of POST /complete: its reply is
\* 200 with the data of the signal as result, or 202.
C32_PollingBeginNeverErrors ==
  (begin[1].polls > 0 /\ begin[1].reply # NoReply) =>
     \/ begin[1].reply.code = 202
     \/ /\ begin[1].reply.code = 200
        /\ comp[1].woke
        /\ begin[1].reply.result = comp[1].body.data

\* the signal arrived between two polls: no call failed, the POST /start
\* polled more than once and then resolved with the data of the signal
C32_Witness ==
  /\ faults = 0
  /\ begin[1].polls >= 2
  /\ begin[1].reply.code = 200
  /\ comp[1].woke
  /\ comp[1].body.data = Obj("[1,2]")
  /\ begin[1].reply.result = Obj("[1,2]")

\* C33: a cleanup delete removes only a terminal row: no step deletes a row
\* whose status is PENDING, in particular not the row that a new POST /start
\* for the key has written again within the grace delay.
C33_CleanupDeletesOnlyTerminal ==
  [][\A k \in Keys :
       (k \in DOMAIN store /\ k \notin DOMAIN store') => store[k].status # "PENDING"]_vars

\* C34: the steps of a POST /start happen in order: the handler comes to the
\* call of startProcessInstance only by the upsert that has just written the
\* PENDING row of its key; createWait starts only by the successful return
\* of that call, with no poll made before; and every poll is made by a
\* running wait.
C34_SaveThenTriggerThenPoll ==
  [][\A b \in BeginIds :
       /\ (begin'[b].pc = "trigger" /\ begin[b].pc # "trigger") =>
            /\ begin[b].pc = "save_upsert"
            /\ begin[b].key \in DOMAIN store'
            /\ store'[begin[b].key].status = "PENDING"
       /\ (begin'[b].wait = "running" /\ begin[b].wait # "running") =>
            /\ begin[b].pc = "trigger"
            /\ begin[b].polls = 0
            /\ begin'[b].polls = 0
       /\ begin'[b].polls > begin[b].polls =>
            /\ begin[b].wait = "running"
            /\ begin[b].pc = "loop"]_vars

\* the first poll of a wait has been made and found the PENDING row
C34_Witness ==
  /\ begin[1].polls = 1
  /\ begin[1].wait = "running"
  /\ begin[1].pc = "sleep"
  /\ begin[1].key \in DOMAIN store
  /\ store[begin[1].key].status = "PENDING"

(***************************************************************************)
(* One POST /start with GET /status requests, for each timeout: the whole  *)
(* schedule of the sleeps of createWait up to its cap.                     *)
(***************************************************************************)
BackoffInit ==
  /\ store = <<>>
  /\ begin = [b \in BeginIds |-> BeginIdle]
  /\ comp = [c \in CompleteIds |-> CompleteIdle]
  /\ statusReq = StatusIdle
  /\ faults = 0
  /\ timeoutMs \in WaitTimeouts
  /\ sql = SqlIdle
  /\ svc = SvcIdle
  /\ times = TimesIdle

BackoffNext ==
  \/ \E k \in Keys : StartSaveFind(1, k)
  \/ StartSaveUpsert(1)
  \/ StartTrigger(1)
  \/ WaitPoll(1)
  \/ WaitWake(1)
  \/ WaitTimeout(1)
  \/ StartErrSaveFind(1)
  \/ StartErrSaveUpsert(1)
  \/ \E k \in Keys : statusRoute(k)
  \/ Tick

BackoffSpec == BackoffInit /\ [][BackoffNext]_vars

TerminationNext ==
  \/ \E k \in Keys : StartSaveFind(1, k)
  \/ StartSaveUpsert(1)
  \/ StartTrigger(1)
  \/ WaitPoll(1)
  \/ WaitWake(1)
  \/ WaitTimeout(1)
  \/ StartErrSaveFind(1)
  \/ StartErrSaveUpsert(1)
  \/ \E k \in Keys, body \in CompleteBodies : CompleteSaveFind(1, k, body)
  \/ CompleteSaveUpsert(1)
  \/ CompleteWake(1)
  \/ CleanupFire(1)
  \/ Tick

TerminationSpec ==
  /\ WaitInit
  /\ [][TerminationNext]_vars
  /\ WF_vars(HandlerStep)
  /\ WF_vars(CleanupFire(1))
  /\ WF_vars(Tick)

\* C36: every POST /start that has arrived is eventually answered, with 200,
\* 202 or 500, for every timeout of the wait, and the reply once sent is
\* never replaced by another.
C36_BeginEventuallyReplies ==
  /\ (begin[1].pc # "idle") ~>
       (begin[1].pc = "done" /\ begin[1].reply.code \in {200, 202, 500})
  /\ [][begin[1].reply # NoReply => begin'[1].reply = begin[1].reply]_vars

\* a wait with the long timeout has run through its sleeps to the deadline
\* and been answered 202
C36_Witness ==
  /\ timeoutMs = LongTimeoutMs
  /\ begin[1].pc = "done"
  /\ begin[1].reply.code = 202
  /\ begin[1].polls >= 7
  /\ begin[1].elapsed >= LongTimeoutMs

\* C37: in every reachable state the error_json of every row is NULL or the
\* JSON text of an object with a message field, so that the mapping of
\* findProcessStore and pollProcessStore throws on no stored row.
C37_ErrorJsonAlwaysParses ==
  \A k \in DOMAIN store :
    /\ store[k].error_json = NULL
         \/ \E m \in Messages : store[k].error_json = Text(JSONstringify(ErrorObject(m)))
    /\ ~RowThrows(store[k])

(***************************************************************************)
(* The POST /complete requests and their cleanup timers on two keys.       *)
(***************************************************************************)
FrameNext ==
  \/ \E c \in CompleteIds, k \in ShutdownKeys, body \in CompleteBodies :
       CompleteSaveFind(c, k, body)
  \/ \E c \in CompleteIds : CompleteSaveUpsert(c)
  \/ \E c \in CompleteIds : CompleteWake(c)
  \/ \E c \in CompleteIds : CleanupFire(c)
  \/ Tick

FrameSpec == Init /\ [][FrameNext]_vars

\* C38: the call of completeWait or failWait a POST /complete makes creates
\* and deletes no row; when no row exists for its correlation id the table is
\* unchanged after it; and the rows of all other correlation ids are
\* unchanged in every case.
C38_WakeCreatesNoRow ==
  [][\A c \in CompleteIds :
       (comp[c].pc = "wake" /\ comp'[c].pc = "done") =>
          /\ DOMAIN store' = DOMAIN store
          /\ comp[c].key \notin DOMAIN store => store' = store
          /\ \A k \in DOMAIN store \ {comp[c].key} : store'[k] = store[k]]_vars

\* a completeWait or failWait for K1 has returned true after the cleanup of
\* an earlier request deleted the row of K1, and the table is still empty
C38_Witness ==
  /\ comp[2].pc = "done"
  /\ comp[2].key = "K1"
  /\ comp[2].woke
  /\ ~comp[2].matched
  /\ comp[1].key = "K1"
  /\ comp[1].timer = NoTimer
  /\ DOMAIN store = {}

====
